---------------------------- MODULE Spec2Model ----------------------------
(***************************************************************************)
(* A model of the baby feeding / diaper log pipeline:                      *)
(*   load_raw_df -> parse_records -> plot_with_matplotlib / plot_with_plotly*)
(* (src/babyplot_data.py, src/babyplot.py).                                *)
(*                                                                         *)
(* Text is a sequence of one-character strings.  Glyphs of the original    *)
(* notation are written with ASCII stand-ins: "^" for the triangle, "o"    *)
(* for the circle, "x" for the cross.  A date is a day number.  A time of  *)
(* day is <<hour, minute>>; Python's None is the empty sequence for a time *)
(* and for a note, and NoneLen for a duration.                             *)
(***************************************************************************)
EXTENDS Integers, Sequences, FiniteSets

VARIABLES
    pc,               \* position of main(): "load", "parse", "parsed", "done", "error"
    df,               \* the raw table: a sequence of rows
    row_idx,          \* the row the loop of parse_records is at
    breast_records, pumped_records, formula_records, urine_records, stool_records,
    count_records, weight_records,
    plotter,          \* "none", "matplotlib" or "plotly"
    feeding_totals,   \* matplotlib: <<date, pumped_total, formula_total>> per date
    direct_totals,    \* matplotlib: <<date, breast_total>> per date
    all_dates,        \* the dates of the rendering path that ran
    pumped_vals, formula_vals, breast_vals,   \* plotly: one value per date of all_dates
    tok,              \* token parsers: the token under test
    tok_kind,         \* token parsers: which parser was applied
    tok_out           \* token parsers: what the parser produced

vars == <<pc, df, row_idx, breast_records, pumped_records, formula_records,
          urine_records, stool_records, count_records, weight_records, plotter,
          feeding_totals, direct_totals, all_dates, pumped_vals, formula_vals,
          breast_vals, tok, tok_kind, tok_out>>

pipeline_vars == <<pc, df, row_idx, breast_records, pumped_records, formula_records,
          urine_records, stool_records, count_records, weight_records, plotter,
          feeding_totals, direct_totals, all_dates, pumped_vals, formula_vals,
          breast_vals>>

token_vars == <<tok, tok_kind, tok_out>>

---------------------------------------------------------------------------
(* Bounds of the model *)

MaxRows == 2        \* rows of a loaded table
MaxDate == 2        \* a loaded row's date is a day in 1..MaxDate
MaxTokLen == 5      \* length of the enumerated tokens

---------------------------------------------------------------------------
(* Text helpers *)

DigitChars == <<"0", "1", "2", "3", "4", "5", "6", "7", "8", "9">>

IsDigit(c) == \E k \in 1..10 : DigitChars[k] = c

DigitVal(c) == (CHOOSE k \in 1..10 : DigitChars[k] = c) - 1

AllDigits(s) == \A k \in 1..Len(s) : IsDigit(s[k])

IsSpace(c) == c = " "

RECURSIVE int(_)
int(s) == IF s = <<>> THEN 0
          ELSE int(SubSeq(s, 1, Len(s) - 1)) * 10 + DigitVal(s[Len(s)])

RECURSIVE lstrip(_)
lstrip(s) == IF s # <<>> /\ IsSpace(s[1]) THEN lstrip(Tail(s)) ELSE s

RECURSIVE rstrip(_)
rstrip(s) == IF s # <<>> /\ IsSpace(s[Len(s)])
             THEN rstrip(SubSeq(s, 1, Len(s) - 1)) ELSE s

strip(s) == rstrip(lstrip(s))

\* str.split(): the maximal runs of non-space characters, in order
RECURSIVE split_from(_, _, _)
split_from(s, k, cur) ==
    IF k > Len(s)
    THEN IF cur = <<>> THEN <<>> ELSE <<cur>>
    ELSE IF IsSpace(s[k])
         THEN (IF cur = <<>> THEN <<>> ELSE <<cur>>) \o split_from(s, k + 1, <<>>)
         ELSE split_from(s, k + 1, Append(cur, s[k]))

split(s) == split_from(s, 1, <<>>)

---------------------------------------------------------------------------
(* parse_time *)

None == <<>>        \* None for a time of day and for a note
NaT == 0            \* the date pandas gives a row whose date cell is empty
Unparseable == 0 - 2    \* a date cell whose text is no date
NoneLen == 0 - 1    \* None for a duration

\* datetime.datetime.strptime(s, "%H:%M"): the format's regular expression is
\* (2[0-3]|[0-1]\d|\d):([0-5]\d|\d), matched at the start with the alternatives
\* tried in that order; text left over after the match is a ValueError.
strptime_HM(s) ==
    LET n == Len(s)
        H2 == n >= 2 /\ ( (s[1] = "2" /\ s[2] \in {"0", "1", "2", "3"})
                         \/ (s[1] \in {"0", "1"} /\ IsDigit(s[2])) )
        H1 == n >= 1 /\ IsDigit(s[1])
        MLen(p) == IF p + 1 <= n /\ s[p] \in {"0", "1", "2", "3", "4", "5"} /\ IsDigit(s[p + 1])
                   THEN 2
                   ELSE IF p <= n /\ IsDigit(s[p]) THEN 1 ELSE 0
        Try(hl) == n >= hl + 1 /\ s[hl + 1] = ":" /\ MLen(hl + 2) > 0
        hl == IF H2 /\ Try(2) THEN 2 ELSE IF H1 /\ Try(1) THEN 1 ELSE 0
    IN  IF hl = 0 THEN None
        ELSE LET ml == MLen(hl + 2)
             IN  IF hl + 1 + ml # n THEN None
                 ELSE <<int(SubSeq(s, 1, hl)), int(SubSeq(s, hl + 2, hl + 1 + ml))>>

BareHourMinute == 30

\* a bare hour read as the hour sharp
parse_time_on_the_hour(s0) ==
    IF s0 = <<>> THEN None
    ELSE LET s == strip(s0)
         IN  IF s = <<>> THEN None
             ELSE IF Len(s) \in {1, 2} /\ AllDigits(s)
                  THEN IF int(s) <= 23 THEN <<int(s), 0>> ELSE None
                  ELSE strptime_HM(s)

parse_time(s0) ==
    IF s0 = <<>> THEN None
    ELSE LET s == strip(s0)
         IN  IF s = <<>> THEN None
             ELSE IF Len(s) \in {1, 2} /\ AllDigits(s)
                  THEN IF int(s) <= 23 THEN <<int(s), BareHourMinute>> ELSE None
                  ELSE strptime_HM(s)

---------------------------------------------------------------------------
(* The token grammars *)

\* Length of the group (\d{1,2}(?::\d{2})?) at the start of s, matched greedily
\* (what follows it, (.*)$, matches anything); 0 when s does not start with a digit.
TimePrefixLen(s) ==
    LET n == Len(s)
        nd == IF n >= 2 /\ IsDigit(s[1]) /\ IsDigit(s[2]) THEN 2
              ELSE IF n >= 1 /\ IsDigit(s[1]) THEN 1 ELSE 0
    IN  IF nd = 0 THEN 0
        ELSE IF n >= nd + 3 /\ s[nd + 1] = ":" /\ IsDigit(s[nd + 2]) /\ IsDigit(s[nd + 3])
             THEN nd + 3
             ELSE nd

\* re.findall(r"[LR]?(\d{1,3})", rest): the captured digit groups, left to right
RECURSIVE findall_LR(_, _)
findall_LR(s, p) ==
    IF p > Len(s) THEN <<>>
    ELSE LET q == IF s[p] \in {"L", "R"} /\ p + 1 <= Len(s) /\ IsDigit(s[p + 1])
                  THEN p + 1 ELSE p
         IN  IF ~IsDigit(s[q]) THEN findall_LR(s, p + 1)
             ELSE LET e == IF q + 2 <= Len(s) /\ IsDigit(s[q + 1]) /\ IsDigit(s[q + 2])
                           THEN q + 2
                           ELSE IF q + 1 <= Len(s) /\ IsDigit(s[q + 1]) THEN q + 1 ELSE q
                  IN  <<int(SubSeq(s, q, e))>> \o findall_LR(s, e + 1)

RECURSIVE SumSeq(_)
SumSeq(q) == IF q = <<>> THEN 0 ELSE q[1] + SumSeq(Tail(q))

\* _parse_breast_token: [time, length, note]
_parse_breast_token(token0) ==
    LET token == strip(token0)
        k == TimePrefixLen(token)
    IN  IF token = <<>> \/ k = 0
        THEN [time |-> None, length |-> NoneLen, note |-> None]
        ELSE LET t == parse_time(SubSeq(token, 1, k))
                 rest == strip(SubSeq(token, k + 1, Len(token)))
                 parts == findall_LR(rest, 1)
             IN  IF rest = <<>>
                 THEN [time |-> t, length |-> NoneLen, note |-> None]
                 ELSE IF parts # <<>>
                      THEN [time |-> t, length |-> SumSeq(parts), note |-> None]
                      ELSE [time |-> t, length |-> NoneLen, note |-> rest]

\* a diaper parser that, like the volume pattern, takes nothing after the time
_parse_diaper_token_bare(token0) ==
    LET token == strip(token0)
        k == TimePrefixLen(token)
    IN  IF token = <<>> \/ k = 0 \/ k < Len(token)
        THEN [time |-> None, note |-> None]
        ELSE [time |-> parse_time(token), note |-> None]

\* _parse_diaper_token: [time, note]
_parse_diaper_token(token0) ==
    LET token == strip(token0)
        k == TimePrefixLen(token)
    IN  IF token = <<>> \/ k = 0
        THEN [time |-> None, note |-> None]
        ELSE [time |-> parse_time(SubSeq(token, 1, k)),
              note |-> strip(SubSeq(token, k + 1, Len(token)))]

\* re.match(r"^(\d{1,2}(?::\d{2})?)-?(\d{1,4})$", token): <<group 1, group 2>> of the
\* first way to match, two digits before one, the colon part before none, the
\* hyphen before none; <<>> when nothing matches.
VolumeWays == << <<2, TRUE, TRUE>>, <<2, TRUE, FALSE>>, <<2, FALSE, TRUE>>, <<2, FALSE, FALSE>>,
                 <<1, TRUE, TRUE>>, <<1, TRUE, FALSE>>, <<1, FALSE, TRUE>>, <<1, FALSE, FALSE>> >>

VolumeWayMatches(token, w) ==
    LET n == Len(token)
        nd == w[1]
        g1 == IF w[2] THEN nd + 3 ELSE nd
        a == IF w[3] THEN g1 + 2 ELSE g1 + 1     \* where the amount starts
    IN  /\ n >= nd /\ AllDigits(SubSeq(token, 1, nd))
        /\ w[2] => ( n >= nd + 3 /\ token[nd + 1] = ":"
                     /\ IsDigit(token[nd + 2]) /\ IsDigit(token[nd + 3]) )
        /\ w[3] => ( n >= g1 + 1 /\ token[g1 + 1] = "-" )
        /\ n >= a /\ n - a + 1 <= 4 /\ AllDigits(SubSeq(token, a, n))

RECURSIVE digits_kept(_)
digits_kept(token) ==
    IF token # <<>> /\ ~IsDigit(token[Len(token)])
    THEN digits_kept(SubSeq(token, 1, Len(token) - 1)) ELSE token

\* the match with what follows the amount cut off instead of refused
volume_match_truncating(token) ==
    LET t == digits_kept(token)
        ok == SelectSeq(VolumeWays, LAMBDA w : VolumeWayMatches(t, w))
    IN  IF ok = <<>> THEN <<>>
        ELSE LET w == ok[1]
                 g1 == IF w[2] THEN w[1] + 3 ELSE w[1]
                 a == IF w[3] THEN g1 + 2 ELSE g1 + 1
             IN  <<SubSeq(t, 1, g1), SubSeq(t, a, Len(t))>>

volume_match(token) ==
    LET ok == SelectSeq(VolumeWays, LAMBDA w : VolumeWayMatches(token, w))
    IN  IF ok = <<>> THEN <<>>
        ELSE LET w == ok[1]
                 g1 == IF w[2] THEN w[1] + 3 ELSE w[1]
                 a == IF w[3] THEN g1 + 2 ELSE g1 + 1
             IN  <<SubSeq(token, 1, g1), SubSeq(token, a, Len(token))>>

---------------------------------------------------------------------------
(* The cells of a row: parse_records' loops over one cell's tokens.  A cell *)
(* is [na |-> BOOLEAN, text |-> characters]; na is a cell pandas holds as   *)
(* missing, or a column the table does not have.                            *)

\* a token loop that gives up on the cell at the first token it cannot read
RECURSIVE breast_tokens_until_rejected(_, _)
breast_tokens_until_rejected(date, tokens) ==
    IF tokens = <<>> THEN <<>>
    ELSE LET r == _parse_breast_token(tokens[1])
         IN  IF r.time # None
             THEN <<[date |-> date, time |-> r.time, length |-> r.length, note |-> r.note]>>
                  \o breast_tokens_until_rejected(date, Tail(tokens))
             ELSE <<>>

RECURSIVE breast_tokens(_, _)
breast_tokens(date, tokens) ==
    IF tokens = <<>> THEN <<>>
    ELSE LET r == _parse_breast_token(tokens[1])
         IN  (IF r.time # None
              THEN <<[date |-> date, time |-> r.time, length |-> r.length, note |-> r.note]>>
              ELSE <<>>) \o breast_tokens(date, Tail(tokens))

breast_cell(date, cell) ==
    IF cell.na THEN <<>> ELSE breast_tokens(date, split(cell.text))

RECURSIVE volume_tokens(_, _)
volume_tokens(date, tokens) ==
    IF tokens = <<>> THEN <<>>
    ELSE LET m == volume_match(tokens[1])
         IN  (IF m # <<>> /\ parse_time(m[1]) # None
              THEN <<[date |-> date, time |-> parse_time(m[1]), amount |-> int(m[2])]>>
              ELSE <<>>) \o volume_tokens(date, Tail(tokens))

pumped_cell(date, cell) ==
    IF cell.na THEN <<>> ELSE volume_tokens(date, split(cell.text))

formula_cell(date, cell) ==
    IF cell.na THEN <<>> ELSE volume_tokens(date, split(cell.text))

RECURSIVE diaper_tokens(_, _)
diaper_tokens(date, tokens) ==
    IF tokens = <<>> THEN <<>>
    ELSE LET r == _parse_diaper_token(tokens[1])
         IN  (IF r.time # None
              THEN <<[date |-> date, time |-> r.time, note |-> r.note]>>
              ELSE <<>>) \o diaper_tokens(date, Tail(tokens))

urine_cell(date, cell) ==
    IF cell.na THEN <<>> ELSE diaper_tokens(date, split(cell.text))

stool_cell(date, cell) ==
    IF cell.na THEN <<>> ELSE diaper_tokens(date, split(cell.text))

\* the weight of a row: whatever the cell holds, unless pandas holds it as missing
weight_cell(date, w) ==
    IF w.na THEN <<>>
    ELSE <<[date |-> date, weight |-> w.value, numeric |-> w.numeric, text |-> w.text]>>

---------------------------------------------------------------------------
(* The token parsers on their own: one token, one parser applied to a cell  *)
(* that holds just that token.                                              *)

\* load_raw_df(None): the sample's dates 2025-09-15 and 2025-09-16, as days 15 and 16
SampleDay1 == 15
SampleDay2 == 16

TokAlphabet == {"0", "2", "6", ":", "-", "x"}

\* the tokens the notation's documentation names, with their near misses
SampleTokens ==
    { <<"0","9",":","0","0","-","6","0">>,          \* 09:00-60
      <<"0","9",":","0","0","-","6","0","a">>,      \* 09:00-60a
      <<"0","9",":","0","0","-","0">>,              \* 09:00-0
      <<"0","9",":","0","0","-">>,                  \* 09:00-
      <<"0","9",":","0","0","6","0">>,              \* 09:0060
      <<"8",":","2","0","L","1","0","R","1","0">>,  \* 8:20L10R10
      <<"0","8",":","0","0","L","1","5","R","2","0","o">>,   \* 08:00L15R20o
      <<"0","8",":","0","0","R","2","0","L","1","5">>,       \* 08:00R20L15
      <<"9","L","5">>, <<"9","R","5">>, <<"9","o">>, <<"9","o","5">>,
      <<"9">>, <<"2","3">>, <<"2","4">>,
      <<"2","3",":","5","9">>, <<"2","4",":","0","0">>, <<"1","0",":","3","0">>,
      <<"0","9",":","0","0","^">> }

TokStrings == UNION { [1..n -> TokAlphabet] : n \in 0..MaxTokLen }

Tokens == TokStrings \cup SampleTokens

TokCell(token) == [na |-> FALSE, text |-> token]

TokInit ==
    /\ tok \in Tokens
    /\ tok_kind = "none"
    /\ tok_out = <<>>

TokTime ==
    /\ tok_kind = "none"
    /\ tok_kind' = "time"
    /\ tok_out' = <<parse_time(tok)>>
    /\ UNCHANGED <<tok, pipeline_vars>>

TokBreast ==
    /\ tok_kind = "none"
    /\ tok_kind' = "breast"
    /\ tok_out' = breast_cell(SampleDay1, TokCell(tok))
    /\ UNCHANGED <<tok, pipeline_vars>>

TokPumped ==
    /\ tok_kind = "none"
    /\ tok_kind' = "pumped"
    /\ tok_out' = pumped_cell(SampleDay1, TokCell(tok))
    /\ UNCHANGED <<tok, pipeline_vars>>

TokFormula ==
    /\ tok_kind = "none"
    /\ tok_kind' = "formula"
    /\ tok_out' = formula_cell(SampleDay1, TokCell(tok))
    /\ UNCHANGED <<tok, pipeline_vars>>

TokUrine ==
    /\ tok_kind = "none"
    /\ tok_kind' = "urine"
    /\ tok_out' = urine_cell(SampleDay1, TokCell(tok))
    /\ UNCHANGED <<tok, pipeline_vars>>

TokStool ==
    /\ tok_kind = "none"
    /\ tok_kind' = "stool"
    /\ tok_out' = stool_cell(SampleDay1, TokCell(tok))
    /\ UNCHANGED <<tok, pipeline_vars>>

PipelineIdle ==
    /\ pc = "load" /\ df = <<>> /\ row_idx = 1
    /\ breast_records = <<>> /\ pumped_records = <<>> /\ formula_records = <<>>
    /\ urine_records = <<>> /\ stool_records = <<>>
    /\ count_records = <<>> /\ weight_records = <<>>
    /\ plotter = "none"
    /\ feeding_totals = <<>> /\ direct_totals = <<>> /\ all_dates = <<>>
    /\ pumped_vals = <<>> /\ formula_vals = <<>> /\ breast_vals = <<>>

TokenInit == TokInit /\ PipelineIdle

TokenNext == TokTime \/ TokBreast \/ TokPumped \/ TokFormula \/ TokUrine \/ TokStool

TokenSpec == TokenInit /\ [][TokenNext]_vars

---------------------------------------------------------------------------
(* The raw table.  A row is [date, breast, pumped, formula, urine, stool,    *)
(* weight]; a weight is in tenths of a kilogram.                             *)

NA == [na |-> TRUE, text |-> <<>>]

Txt(s) == [na |-> FALSE, text |-> s]

\* a weight cell: missing, a number (tenths of a kilogram), or text that is no number
NoWeight == [na |-> TRUE, numeric |-> FALSE, value |-> 0, text |-> <<>>]

Kg(w) == [na |-> FALSE, numeric |-> TRUE, value |-> w, text |-> <<>>]

WeightText(s) == [na |-> FALSE, numeric |-> FALSE, value |-> 0, text |-> s]

\* load_raw_df(None), first row: 08:00L15R20 11:30 | 09:00-60 14:00-40 | 12:30-100 18:30-80 | 07:00 10:00 15:30 | 09:00 13:00^ | 4.5
SampleCells1 ==
    [breast |-> Txt(<<"0","8",":","0","0","L","1","5","R","2","0"," ","1","1",":","3","0">>),
     pumped |-> Txt(<<"0","9",":","0","0","-","6","0"," ","1","4",":","0","0","-","4","0">>),
     formula |-> Txt(<<"1","2",":","3","0","-","1","0","0"," ","1","8",":","3","0","-","8","0">>),
     urine |-> Txt(<<"0","7",":","0","0"," ","1","0",":","0","0"," ","1","5",":","3","0">>),
     stool |-> Txt(<<"0","9",":","0","0"," ","1","3",":","0","0","^">>),
     weight |-> Kg(45)]

\* load_raw_df(None), second row: 07:30L20R15 | 10:00-50 | 13:00-120 | 08:00 12:00 | 09:30x 16:00 | 4.7
SampleCells2 ==
    [breast |-> Txt(<<"0","7",":","3","0","L","2","0","R","1","5">>),
     pumped |-> Txt(<<"1","0",":","0","0","-","5","0">>),
     formula |-> Txt(<<"1","3",":","0","0","-","1","2","0">>),
     urine |-> Txt(<<"0","8",":","0","0"," ","1","2",":","0","0">>),
     stool |-> Txt(<<"0","9",":","3","0","x"," ","1","6",":","0","0">>),
     weight |-> Kg(47)]

\* a day with a weight and nothing else
WeightOnlyCells ==
    [breast |-> NA,
     pumped |-> NA,
     formula |-> NA,
     urine |-> NA,
     stool |-> NA,
     weight |-> Kg(45)]

\* a day with the same urine token twice: 07:00 07:00
UrineOnlyCells ==
    [breast |-> NA,
     pumped |-> NA,
     formula |-> NA,
     urine |-> Txt(<<"0","7",":","0","0"," ","0","7",":","0","0">>),
     stool |-> NA,
     weight |-> NoWeight]

\* hand-typed noise: 9 x9 24 11:30o | 09:00-60a 9-5 | 0960 09:00-0 | (empty) | 9^ zz
NoisyCells ==
    [breast |-> Txt(<<"9"," ","x","9"," ","2","4"," ","1","1",":","3","0","o">>),
     pumped |-> Txt(<<"0","9",":","0","0","-","6","0","a"," ","9","-","5">>),
     formula |-> Txt(<<"0","9","6","0"," ","0","9",":","0","0","-","0">>),
     urine |-> Txt(<<>>),
     stool |-> Txt(<<"9","^"," ","z","z">>),
     weight |-> NoWeight]

\* a day with one feeding of no recorded duration: 11:30
BreastOnlyCells ==
    [breast |-> Txt(<<"1","1",":","3","0">>),
     pumped |-> NA,
     formula |-> NA,
     urine |-> NA,
     stool |-> NA,
     weight |-> NoWeight]

RowShapes == {SampleCells1, SampleCells2, WeightOnlyCells, UrineOnlyCells, NoisyCells,
              BreastOnlyCells}

WithDate(d, c) ==
    [date |-> d, breast |-> c.breast, pumped |-> c.pumped, formula |-> c.formula,
     urine |-> c.urine, stool |-> c.stool, weight |-> c.weight]

Rows == { WithDate(d, c) : d \in 1..MaxDate, c \in RowShapes }

Tables == UNION { [1..n -> Rows] : n \in 0..MaxRows }

\* a day with one urine token and a weight cell that holds text: 07:00 | abc
TextWeightCells ==
    [breast |-> NA,
     pumped |-> NA,
     formula |-> NA,
     urine |-> Txt(<<"0","7",":","0","0">>),
     stool |-> NA,
     weight |-> WeightText(<<"a","b","c">>)]

\* a day with two feedings and a weight: 9L5 10:30 | 4.5
BreastWeightCells ==
    [breast |-> Txt(<<"9","L","5"," ","1","0",":","3","0">>),
     pumped |-> NA,
     formula |-> NA,
     urine |-> NA,
     stool |-> NA,
     weight |-> Kg(45)]

RawShapes == {TextWeightCells, BreastWeightCells, UrineOnlyCells}

RawRows == { WithDate(d, c) : d \in (1..MaxDate) \cup {NaT, Unparseable}, c \in RawShapes }

RawTables == UNION { [1..n -> RawRows] : n \in 0..MaxRows }

SampleDf == << WithDate(SampleDay1, SampleCells1), WithDate(SampleDay2, SampleCells2) >>

---------------------------------------------------------------------------
(* parse_records *)

NoRecords == [breast |-> <<>>, pumped |-> <<>>, formula |-> <<>>, urine |-> <<>>,
              stool |-> <<>>, weight |-> <<>>]

\* a loop body that puts a row's events in front of the lists
process_row_prepending(acc, row) ==
    [breast  |-> breast_cell(row.date, row.breast) \o acc.breast,
     pumped  |-> pumped_cell(row.date, row.pumped) \o acc.pumped,
     formula |-> formula_cell(row.date, row.formula) \o acc.formula,
     urine   |-> urine_cell(row.date, row.urine) \o acc.urine,
     stool   |-> stool_cell(row.date, row.stool) \o acc.stool,
     weight  |-> weight_cell(row.date, row.weight) \o acc.weight]

\* one pass of the loop over the rows: every cell of the row, then its weight
process_row(acc, row) ==
    [breast  |-> acc.breast \o breast_cell(row.date, row.breast),
     pumped  |-> acc.pumped \o pumped_cell(row.date, row.pumped),
     formula |-> acc.formula \o formula_cell(row.date, row.formula),
     urine   |-> acc.urine \o urine_cell(row.date, row.urine),
     stool   |-> acc.stool \o stool_cell(row.date, row.stool),
     weight  |-> acc.weight \o weight_cell(row.date, row.weight)]

RECURSIVE dates_of(_)
dates_of(records) ==
    IF records = <<>> THEN {} ELSE {records[1].date} \cup dates_of(Tail(records))

RECURSIVE ascending(_)
ascending(S) ==
    IF S = {} THEN <<>>
    ELSE LET m == CHOOSE x \in S : \A y \in S : x <= y
         IN  <<m>> \o ascending(S \ {m})

\* the dates in the order they are first seen: the set without the sort
RECURSIVE first_seen_dates(_)
first_seen_dates(records) ==
    IF records = <<>> THEN <<>>
    ELSE LET before == first_seen_dates(SubSeq(records, 1, Len(records) - 1))
             d == records[Len(records)].date
         IN  IF \E k \in 1..Len(before) : before[k] = d THEN before ELSE Append(before, d)

\* sorted({r['date'] for r in records})
sorted_dates(records) == ascending(dates_of(records))

\* the count with equal records merged into one
count_distinct_on(records, d) ==
    Cardinality({records[k] : k \in {j \in 1..Len(records) : records[j].date = d}})

\* sum(1 for r in records if r['date'] == d)
RECURSIVE count_on(_, _)
count_on(records, d) ==
    IF records = <<>> THEN 0
    ELSE (IF records[1].date = d /\ d # NaT THEN 1 ELSE 0) + count_on(Tail(records), d)

build_count_records(r) ==
    LET dates == sorted_dates(r.breast \o r.pumped \o r.formula \o r.urine \o r.stool)
    IN  [k \in 1..Len(dates) |->
            [date    |-> dates[k],
             breast  |-> count_on(r.breast, dates[k]),
             pumped  |-> count_on(r.pumped, dates[k]),
             formula |-> count_on(r.formula, dates[k]),
             urine   |-> count_on(r.urine, dates[k]),
             stool   |-> count_on(r.stool, dates[k])]]

count_rows(r, dates) ==
    [k \in 1..Len(dates) |->
        [date    |-> dates[k],
         breast  |-> count_on(r.breast, dates[k]),
         pumped  |-> count_on(r.pumped, dates[k]),
         formula |-> count_on(r.formula, dates[k]),
         urine   |-> count_on(r.urine, dates[k]),
         stool   |-> count_on(r.stool, dates[k])]]

\* the sequence q with x put in at position k
inserted(q, x, k) == SubSeq(q, 1, k - 1) \o <<x>> \o SubSeq(q, k, Len(q))

\* What the count step can come to.  Without NaT among the dates, or with NaT
\* alone, it is the one count table.  NaT together with a real date makes
\* sorted() compare NaT with a datetime.date: pandas 2 raises TypeError there,
\* pandas 1 answers False to every such comparison, which leaves NaT wherever
\* the sort happens to put it.
count_outcomes(r) ==
    LET events == r.breast \o r.pumped \o r.formula \o r.urine \o r.stool
        real == ascending(dates_of(events) \ {NaT})
    IN  IF NaT \notin dates_of(events) \/ real = <<>>
        THEN { [raised |-> FALSE, count |-> build_count_records(r)] }
        ELSE { [raised |-> TRUE, count |-> <<>>] }
             \cup { [raised |-> FALSE, count |-> count_rows(r, inserted(real, NaT, k))] :
                      k \in 1..(Len(real) + 1) }

RECURSIVE parse_rows(_, _)
parse_rows(acc, table) ==
    IF table = <<>> THEN acc ELSE parse_rows(process_row(acc, table[1]), Tail(table))

\* the dictionary parse_records returns
parse_records(table) ==
    LET r == parse_rows(NoRecords, table)
    IN  [breast |-> r.breast, pumped |-> r.pumped, formula |-> r.formula,
         urine |-> r.urine, stool |-> r.stool, count |-> build_count_records(r),
         weight |-> r.weight]

---------------------------------------------------------------------------
(* The daily totals of the two rendering paths *)

\* a total that keeps the last amount of the date instead of adding them up
RECURSIVE amount_on_last(_, _)
amount_on_last(records, d) ==
    IF records = <<>> THEN 0
    ELSE IF records[Len(records)].date = d THEN records[Len(records)].amount
    ELSE amount_on_last(SubSeq(records, 1, Len(records) - 1), d)

\* df[df['date'] == date]['amount'].sum(), and 0 when no row has the date
RECURSIVE amount_on(_, _)
amount_on(records, d) ==
    IF records = <<>> THEN 0
    ELSE (IF records[1].date = d THEN records[1].amount ELSE 0) + amount_on(Tail(records), d)

\* a sum that a missing length of the date spoils: it comes out as missing itself
RECURSIVE length_on_unskipped(_, _)
length_on_unskipped(records, d) ==
    IF records = <<>> THEN 0
    ELSE LET rest == length_on_unskipped(Tail(records), d)
         IN  IF records[1].date # d THEN rest
             ELSE IF records[1].length = NoneLen \/ rest = NoneLen THEN NoneLen
             ELSE records[1].length + rest

\* df[df['date'] == date]['length'].sum(): a missing length is skipped
RECURSIVE length_on(_, _)
length_on(records, d) ==
    IF records = <<>> THEN 0
    ELSE (IF records[1].date = d /\ records[1].length # NoneLen THEN records[1].length ELSE 0)
         + length_on(Tail(records), d)

\* plot_with_matplotlib: the dates of the five event tables
mpl_all_dates(p) ==
    sorted_dates(p.breast \o p.pumped \o p.formula \o p.urine \o p.stool)

\* plot_with_matplotlib: the totals loop indexes the 'date' column of the pumped,
\* formula and breast tables; a table built from no records has no columns, and
\* the lookup raises KeyError.
mpl_raises(p) ==
    /\ mpl_all_dates(p) # <<>>
    /\ (p.pumped = <<>> \/ p.formula = <<>> \/ p.breast = <<>>)

mpl_feeding_totals(p) ==
    LET dates == mpl_all_dates(p)
    IN  [k \in 1..Len(dates) |->
            <<dates[k], amount_on(p.pumped, dates[k]), amount_on(p.formula, dates[k])>>]

mpl_direct_totals(p) ==
    LET dates == mpl_all_dates(p)
    IN  [k \in 1..Len(dates) |-> <<dates[k], length_on(p.breast, dates[k])>>]

\* plot_with_plotly: the dates of the five event tables, the count table and the
\* weight table
plotly_all_dates(p) ==
    sorted_dates(p.breast \o p.pumped \o p.formula \o p.urine \o p.stool
                 \o p.count \o p.weight)

plotly_pumped_vals(p) ==
    LET dates == plotly_all_dates(p)
    IN  [k \in 1..Len(dates) |-> amount_on(p.pumped, dates[k])]

plotly_formula_vals(p) ==
    LET dates == plotly_all_dates(p)
    IN  [k \in 1..Len(dates) |-> amount_on(p.formula, dates[k])]

plotly_breast_vals(p) ==
    LET dates == plotly_all_dates(p)
    IN  [k \in 1..Len(dates) |-> length_on(p.breast, dates[k])]

---------------------------------------------------------------------------
(* main(): load, parse, render *)

TokensIdle == tok = <<>> /\ tok_kind = "none" /\ tok_out = <<>>

Init == PipelineIdle /\ TokensIdle

\* load_data() with no file: the built-in sample
LoadSample ==
    /\ pc = "load"
    /\ df' = SampleDf
    /\ pc' = "parse"
    /\ UNCHANGED <<token_vars, row_idx, breast_records, pumped_records, formula_records, urine_records,
                   stool_records, count_records, weight_records, plotter, feeding_totals,
                   direct_totals, all_dates, pumped_vals, formula_vals, breast_vals>>

\* load_data(args.file): a table read from a file
LoadFile ==
    /\ pc = "load"
    /\ \E table \in Tables : df' = table
    /\ pc' = "parse"
    /\ UNCHANGED <<token_vars, row_idx, breast_records, pumped_records, formula_records, urine_records,
                   stool_records, count_records, weight_records, plotter, feeding_totals,
                   direct_totals, all_dates, pumped_vals, formula_vals, breast_vals>>

Records == [breast |-> breast_records, pumped |-> pumped_records,
            formula |-> formula_records, urine |-> urine_records,
            stool |-> stool_records, weight |-> weight_records]

\* parse_records: the loop body on the row at row_idx
ParseRow ==
    /\ pc = "parse"
    /\ row_idx <= Len(df)
    /\ LET r == process_row(Records, df[row_idx])
       IN  /\ breast_records' = r.breast
           /\ pumped_records' = r.pumped
           /\ formula_records' = r.formula
           /\ urine_records' = r.urine
           /\ stool_records' = r.stool
           /\ weight_records' = r.weight
    /\ row_idx' = row_idx + 1
    /\ UNCHANGED <<token_vars, pc, df, count_records, plotter, feeding_totals, direct_totals,
                   all_dates, pumped_vals, formula_vals, breast_vals>>

\* parse_records: after the loop, the count table, and the return
BuildCount ==
    /\ pc = "parse"
    /\ row_idx > Len(df)
    /\ \E o \in count_outcomes(Records) :
          /\ count_records' = o.count
          /\ pc' = IF o.raised THEN "error" ELSE "parsed"
    /\ UNCHANGED <<token_vars, df, row_idx, breast_records, pumped_records, formula_records,
                   urine_records, stool_records, weight_records, plotter, feeding_totals,
                   direct_totals, all_dates, pumped_vals, formula_vals, breast_vals>>

Parsed == [breast |-> breast_records, pumped |-> pumped_records,
           formula |-> formula_records, urine |-> urine_records,
           stool |-> stool_records, count |-> count_records, weight |-> weight_records]

PlotMatplotlib ==
    /\ pc = "parsed"
    /\ plotter' = "matplotlib"
    /\ all_dates' = mpl_all_dates(Parsed)
    /\ IF mpl_raises(Parsed)
       THEN /\ pc' = "error"
            /\ UNCHANGED <<feeding_totals, direct_totals>>
       ELSE /\ pc' = "done"
            /\ feeding_totals' = mpl_feeding_totals(Parsed)
            /\ direct_totals' = mpl_direct_totals(Parsed)
    /\ UNCHANGED <<token_vars, df, row_idx, breast_records, pumped_records, formula_records,
                   urine_records, stool_records, count_records, weight_records,
                   pumped_vals, formula_vals, breast_vals>>

PlotPlotly ==
    /\ pc = "parsed"
    /\ plotter' = "plotly"
    /\ all_dates' = plotly_all_dates(Parsed)
    /\ pumped_vals' = plotly_pumped_vals(Parsed)
    /\ formula_vals' = plotly_formula_vals(Parsed)
    /\ breast_vals' = plotly_breast_vals(Parsed)
    /\ pc' = "done"
    /\ UNCHANGED <<token_vars, df, row_idx, breast_records, pumped_records, formula_records,
                   urine_records, stool_records, count_records, weight_records,
                   feeding_totals, direct_totals>>

\* load_data(args.file) on a hand-edited file: date cells may be empty or hold
\* text that is no date, weight cells may hold text.  pd.to_datetime raises on
\* a date it cannot parse, and the run ends there; an empty date becomes NaT.
LoadRawFile ==
    /\ pc = "load"
    /\ \E table \in RawTables :
          /\ df' = table
          /\ pc' = IF \E k \in 1..Len(table) : table[k].date = Unparseable
                   THEN "error" ELSE "parse"
    /\ UNCHANGED <<token_vars, row_idx, breast_records, pumped_records, formula_records,
                   urine_records, stool_records, count_records, weight_records, plotter,
                   feeding_totals, direct_totals, all_dates, pumped_vals, formula_vals,
                   breast_vals>>

Next == LoadSample \/ LoadFile \/ ParseRow \/ BuildCount \/ PlotMatplotlib \/ PlotPlotly

Spec == Init /\ [][Next]_vars

\* parse_records on the tables of hand-edited files
RawNext == LoadRawFile \/ ParseRow \/ BuildCount

RawSpec == Init /\ [][RawNext]_vars

\* load_data(args.file): a diary kept as the sample is, with slips of the hand and
\* days that have nothing but one feeding
DiaryShapes == {SampleCells1, SampleCells2, NoisyCells, BreastOnlyCells}

DiaryRows == { WithDate(d, c) : d \in 1..MaxDate, c \in DiaryShapes }

DiaryTables == UNION { [1..n -> DiaryRows] : n \in 0..MaxRows }

LoadDiary ==
    /\ pc = "load"
    /\ \E table \in DiaryTables : df' = table
    /\ pc' = "parse"
    /\ UNCHANGED <<token_vars, row_idx, breast_records, pumped_records, formula_records, urine_records,
                   stool_records, count_records, weight_records, plotter, feeding_totals,
                   direct_totals, all_dates, pumped_vals, formula_vals, breast_vals>>

DiaryNext == LoadDiary \/ ParseRow \/ BuildCount \/ PlotMatplotlib \/ PlotPlotly

DiarySpec == Init /\ [][DiaryNext]_vars

---------------------------------------------------------------------------
(* Properties of the aggregation *)

EventRecords ==
    breast_records \o pumped_records \o formula_records \o urine_records \o stool_records

EventDates == { EventRecords[k].date : k \in 1..Len(EventRecords) }

NumberOn(records, d) == Cardinality({ j \in 1..Len(records) : records[j].date = d })

AfterParse == pc \in {"parsed", "done", "error"}

\* C1: after parse_records, every date of any of the five event lists has a row in
\* the count table, and the row's five fields are the numbers of events of each
\* category with that date, equal events counted one by one.
C1_CountTableExact ==
    AfterParse =>
        \A d \in EventDates :
            /\ \E k \in 1..Len(count_records) : count_records[k].date = d
            /\ \A k \in 1..Len(count_records) :
                  count_records[k].date = d =>
                      /\ count_records[k].breast = NumberOn(breast_records, d)
                      /\ count_records[k].pumped = NumberOn(pumped_records, d)
                      /\ count_records[k].formula = NumberOn(formula_records, d)
                      /\ count_records[k].urine = NumberOn(urine_records, d)
                      /\ count_records[k].stool = NumberOn(stool_records, d)
                      /\ count_records[k].breast >= 0 /\ count_records[k].pumped >= 0
                      /\ count_records[k].formula >= 0 /\ count_records[k].urine >= 0
                      /\ count_records[k].stool >= 0

\* a date with urine events only, two of them equal, counted 0, 0, 0, 2, 0
C1_Witness ==
    /\ pc = "parsed"
    /\ \E d \in EventDates :
          /\ NumberOn(breast_records \o pumped_records \o formula_records \o stool_records, d) = 0
          /\ \E i, j \in 1..Len(urine_records) :
                i # j /\ urine_records[i] = urine_records[j] /\ urine_records[i].date = d
          /\ \E k \in 1..Len(count_records) :
                count_records[k] = [date |-> d, breast |-> 0, pumped |-> 0, formula |-> 0,
                                    urine |-> 2, stool |-> 0]

Rendered == pc \in {"done", "error"}

TotalsRowFor(d) ==
    IF plotter = "matplotlib"
    THEN /\ \E k \in 1..Len(feeding_totals) :
               feeding_totals[k] = <<d, amount_on(pumped_records, d), amount_on(formula_records, d)>>
         /\ \E k \in 1..Len(direct_totals) :
               direct_totals[k] = <<d, length_on(breast_records, d)>>
    ELSE \E k \in 1..Len(all_dates) :
            /\ all_dates[k] = d
            /\ pumped_vals[k] = amount_on(pumped_records, d)
            /\ formula_vals[k] = amount_on(formula_records, d)
            /\ breast_vals[k] = length_on(breast_records, d)

\* C2: the rendering derives, for every date of any of the five event lists, the
\* sums of that date's pumped amounts, formula amounts and breast minutes, 0 for a
\* category with no event on the date or no event at all, and does not fail.
C2_TotalsForEveryDate ==
    Rendered => ( pc = "done" /\ \A d \in EventDates : TotalsRowFor(d) )

\* C3: the dates of the count table and of the daily totals are exactly the dates
\* of the five event lists.
C3_DatesAreEventDates ==
    /\ AfterParse => { count_records[k].date : k \in 1..Len(count_records) } = EventDates
    /\ pc = "done" => { all_dates[k] : k \in 1..Len(all_dates) } = EventDates

Permutations(n) == { f \in [1..n -> 1..n] : \A a, b \in 1..n : f[a] = f[b] => a = b }

Permuted(table, f) == [k \in 1..Len(table) |-> table[f[k]]]

\* what main() leaves behind for a table and a plotter
Outcome(table, which) ==
    LET p == parse_records(table)
    IN  IF which = "matplotlib"
        THEN [count |-> p.count, raised |-> mpl_raises(p), dates |-> mpl_all_dates(p),
              feeding |-> IF mpl_raises(p) THEN <<>> ELSE mpl_feeding_totals(p),
              direct |-> IF mpl_raises(p) THEN <<>> ELSE mpl_direct_totals(p),
              pumped |-> <<>>, formula |-> <<>>, breast |-> <<>>]
        ELSE [count |-> p.count, raised |-> FALSE, dates |-> plotly_all_dates(p),
              feeding |-> <<>>, direct |-> <<>>,
              pumped |-> plotly_pumped_vals(p), formula |-> plotly_formula_vals(p),
              breast |-> plotly_breast_vals(p)]

Reached ==
    [count |-> count_records, raised |-> (pc = "error"), dates |-> all_dates,
     feeding |-> feeding_totals, direct |-> direct_totals,
     pumped |-> pumped_vals, formula |-> formula_vals, breast |-> breast_vals]

\* C4: the count table and the daily totals of a run are those of a run on any
\* permutation of the table's rows: same dates, same order, same numbers.
C4_RowOrderIndependent ==
    Rendered =>
        \A f \in Permutations(Len(df)) : Outcome(Permuted(df, f), plotter) = Reached

\* a finished run on two rows given latest date first, both with events
C4_Witness ==
    /\ pc = "done"
    /\ Len(df) = 2 /\ df[1].date > df[2].date
    /\ Len(count_records) = 2
    /\ \E k \in 1..Len(pumped_records) : pumped_records[k].date = df[1].date
    /\ \E k \in 1..Len(pumped_records) : pumped_records[k].date = df[2].date

---------------------------------------------------------------------------
(* Properties of the token grammars, on TokenSpec *)

VolumeParsed == tok_kind \in {"pumped", "formula"}

Tok_0900_60 == <<"0","9",":","0","0","-","6","0">>

Tok_0900_60a == <<"0","9",":","0","0","-","6","0","a">>

\* C5: an accepted pumped or formula token has the form <time>-<amount>: a
\* recognized time, a hyphen, one to four digits.
C5_HyphenMandatory ==
    (VolumeParsed /\ tok_out # <<>>) =>
        \E k \in 1..Len(tok) :
            /\ tok[k] = "-"
            /\ parse_time(SubSeq(tok, 1, k - 1)) # None
            /\ Len(tok) - k \in 1..4
            /\ AllDigits(SubSeq(tok, k + 1, Len(tok)))

\* C6: every pumped or formula event has an amount of at least 1.
C6_AmountPositive ==
    VolumeParsed => \A k \in 1..Len(tok_out) : tok_out[k].amount >= 1

\* some character that is not a digit follows the digits after the first hyphen
HasSuffixAfterAmount(t) ==
    \E k \in 1..Len(t) :
        /\ t[k] = "-"
        /\ \A j \in 1..(k - 1) : t[j] # "-"
        /\ k < Len(t) /\ IsDigit(t[k + 1])
        /\ \E j \in (k + 2)..Len(t) : ~IsDigit(t[j])

\* C7: a pumped or formula token that ends in a character that is not a digit, or
\* has such a character after its amount, yields no event; 09:00-60a yields none,
\* and 09:00-60 yields the one event 09:00, 60.
C7_SuffixRejected ==
    VolumeParsed =>
        /\ (tok # <<>> /\ ~IsDigit(tok[Len(tok)])) => tok_out = <<>>
        /\ HasSuffixAfterAmount(tok) => tok_out = <<>>
        /\ tok = Tok_0900_60a => tok_out = <<>>
        /\ tok = Tok_0900_60 =>
              tok_out = <<[date |-> SampleDay1, time |-> <<9, 0>>, amount |-> 60]>>

C7_Witness ==
    /\ tok_kind = "pumped" /\ tok = Tok_0900_60a /\ HasSuffixAfterAmount(tok)
    /\ tok_out = <<>>

\* the notation's breast grammar: after the time, an L or R with one to three
\* digits, then the other letter with one to three digits, then the trailing text
LRPartEnd(t, p) ==
    IF p + 1 <= Len(t) /\ t[p] \in {"L", "R"} /\ IsDigit(t[p + 1])
    THEN IF p + 3 <= Len(t) /\ IsDigit(t[p + 2]) /\ IsDigit(t[p + 3]) THEN p + 3
         ELSE IF p + 2 <= Len(t) /\ IsDigit(t[p + 2]) THEN p + 2 ELSE p + 1
    ELSE p - 1

LRFirstEnd(t) == LRPartEnd(t, TimePrefixLen(t) + 1)

LRHasFirst(t) == LRFirstEnd(t) > TimePrefixLen(t)

LRSecondEnd(t) ==
    IF LRHasFirst(t) /\ LRFirstEnd(t) + 1 <= Len(t)
       /\ t[LRFirstEnd(t) + 1] \in {"L", "R"} \ {t[TimePrefixLen(t) + 1]}
    THEN LRPartEnd(t, LRFirstEnd(t) + 1)
    ELSE LRFirstEnd(t)

LRDuration(t) ==
    IF ~LRHasFirst(t) THEN NoneLen
    ELSE int(SubSeq(t, TimePrefixLen(t) + 2, LRFirstEnd(t)))
         + (IF LRSecondEnd(t) > LRFirstEnd(t)
            THEN int(SubSeq(t, LRFirstEnd(t) + 2, LRSecondEnd(t))) ELSE 0)

LRTrailing(t) == strip(SubSeq(t, LRSecondEnd(t) + 1, Len(t)))

\* C8: an accepted breast token's duration is the sum of its L part and its R part,
\* whichever are there, and None when it has neither.
C8_DurationIsLRSum ==
    (tok_kind = "breast" /\ tok_out # <<>>) => tok_out[1].length = LRDuration(tok)

\* C9: an accepted breast token's note is the text after the time and the L and R
\* parts, trimmed, and None when that text is empty.
C9_NoteIsTrailingText ==
    (tok_kind = "breast" /\ tok_out # <<>>) => tok_out[1].note = LRTrailing(tok)

\* a string of one or two digits, a colon, and one or two digits, the hour at most
\* 23 and the minute at most 59: 24-hour H:MM, zero-padded or not
IsHourMinute(t) ==
    \E k \in {2, 3} :
        /\ k < Len(t) /\ Len(t) - k <= 2
        /\ t[k] = ":"
        /\ AllDigits(SubSeq(t, 1, k - 1)) /\ AllDigits(SubSeq(t, k + 1, Len(t)))
        /\ int(SubSeq(t, 1, k - 1)) <= 23 /\ int(SubSeq(t, k + 1, Len(t))) <= 59

ColonAt(t) == CHOOSE k \in 1..Len(t) : t[k] = ":"

IsBareNumber(t) == Len(t) \in {1, 2} /\ AllDigits(t)

---------------------------------------------------------------------------
(* Properties of the row loop on hand-edited tables, on RawSpec *)

HasDate(row) == row.date \notin {NaT, Unparseable}

Processed == SubSeq(df, 1, row_idx - 1)

\* C11: a row whose date is missing or unparseable adds no event and no weight
\* sample, and the rows that have a date are all processed: the lists are those
\* of the dated rows alone, and the run does not end in an error.
C11_UndatedRowSkipped ==
    /\ pc # "error"
    /\ pc \in {"parse", "parsed"} =>
          Records = parse_rows(NoRecords, SelectSeq(Processed, HasDate))

HasNumericWeight(row) == ~row.weight.na /\ row.weight.numeric

\* C13: the weight samples are one per processed row whose weight is a number,
\* with that row's date, in row order; a row whose weight is missing or is not a
\* number adds none.
C13_OneSamplePerNumericWeight ==
    pc \in {"parse", "parsed"} =>
        LET rows == SelectSeq(Processed, HasNumericWeight)
        IN  /\ Len(weight_records) = Len(rows)
            /\ \A k \in 1..Len(rows) :
                  /\ weight_records[k].date = rows[k].date
                  /\ weight_records[k].numeric
                  /\ weight_records[k].weight = rows[k].weight.value

---------------------------------------------------------------------------
(* Rejected tokens, on DiarySpec *)

\* whether the parser of a category reads the token
Accepts(category, token) ==
    CASE category = "breast" -> _parse_breast_token(token).time # None
      [] category \in {"pumped", "formula"} ->
            volume_match(token) # <<>> /\ parse_time(volume_match(token)[1]) # None
      [] OTHER -> _parse_diaper_token(token).time # None

RECURSIVE join(_)
join(tokens) ==
    IF tokens = <<>> THEN <<>>
    ELSE IF Len(tokens) = 1 THEN tokens[1]
    ELSE tokens[1] \o <<" ">> \o join(Tail(tokens))

\* the cell with the tokens its parser rejects taken out
CleanCell(category, cell) ==
    IF cell.na THEN cell
    ELSE Txt(join(SelectSeq(split(cell.text), LAMBDA t : Accepts(category, t))))

CleanRow(row) ==
    [date |-> row.date,
     breast |-> CleanCell("breast", row.breast),
     pumped |-> CleanCell("pumped", row.pumped),
     formula |-> CleanCell("formula", row.formula),
     urine |-> CleanCell("urine", row.urine),
     stool |-> CleanCell("stool", row.stool),
     weight |-> row.weight]

RECURSIVE Cleaned(_)
Cleaned(table) ==
    IF table = <<>> THEN <<>> ELSE <<CleanRow(table[1])>> \o Cleaned(Tail(table))

HasRejected(category, cell) ==
    ~cell.na /\ \E k \in 1..Len(split(cell.text)) : ~Accepts(category, split(cell.text)[k])

HasAccepted(category, cell) ==
    ~cell.na /\ \E k \in 1..Len(split(cell.text)) : Accepts(category, split(cell.text)[k])

\* C12: a rejected token changes no list and stops nothing: at every point of the
\* row loop and after it, the lists are those of the same rows with the rejected
\* tokens taken out of their cells, and the loop itself never ends in an error.
C12_RejectedTokenIgnored ==
    /\ pc # "load" => Records = parse_rows(NoRecords, Cleaned(Processed))
    /\ pc = "error" => row_idx > Len(df) /\ plotter # "none"

\* a row whose breast cell has a rejected token between two accepted ones, with
\* rejected tokens in its other cells too, followed by a row with events
C12_Witness ==
    /\ pc = "parsed"
    /\ Len(df) = 2
    /\ \E k \in 2..(Len(split(df[1].breast.text)) - 1) :
          /\ ~Accepts("breast", split(df[1].breast.text)[k])
          /\ Accepts("breast", split(df[1].breast.text)[1])
          /\ Accepts("breast", split(df[1].breast.text)[Len(split(df[1].breast.text))])
    /\ HasRejected("pumped", df[1].pumped) /\ HasAccepted("pumped", df[1].pumped)
    /\ HasRejected("stool", df[1].stool)
    /\ HasAccepted("urine", df[2].urine)
    /\ Len(breast_records) >= 3
    /\ \E k \in 1..Len(urine_records) : urine_records[k].date = df[2].date

---------------------------------------------------------------------------
(* The order of the event lists, on DiarySpec *)

Categories == {"breast", "pumped", "formula", "urine", "stool"}

TokensOf(row, category) ==
    IF row[category].na THEN <<>> ELSE split(row[category].text)

\* the tokens of a category's cells, row by row
RECURSIVE TokensOfRows(_, _)
TokensOfRows(table, category) ==
    IF table = <<>> THEN <<>>
    ELSE <<TokensOf(table[1], category)>> \o TokensOfRows(Tail(table), category)

\* where the events of a category come from: <<row, position in the cell>> of
\* every accepted token, given the rows' tokens
Origins(toks, category) ==
    { p \in UNION { { <<i, j>> : j \in 1..Len(toks[i]) } : i \in 1..Len(toks) } :
        Accepts(category, toks[p[1]][p[2]]) }

Before(p, q) == p[1] < q[1] \/ (p[1] = q[1] /\ p[2] < q[2])

\* the place in the list of the event of an accepted token, among the origins O
Rank(O, p) == Cardinality({ q \in O : Before(q, p) }) + 1

\* the event a single accepted token stands for
EventOf(category, date, token) ==
    CASE category = "breast" ->
            LET r == _parse_breast_token(token)
            IN  [date |-> date, time |-> r.time, length |-> r.length, note |-> r.note]
      [] category \in {"pumped", "formula"} ->
            [date |-> date, time |-> parse_time(volume_match(token)[1]),
             amount |-> int(volume_match(token)[2])]
      [] OTHER ->
            LET r == _parse_diaper_token(token)
            IN  [date |-> date, time |-> r.time, note |-> r.note]

\* C14: in each of the five lists there is one event per accepted token, it has
\* the date of the token's row and a time that is not None, and the events stand
\* in the order of their tokens: by row, then by position in the cell.
C14_RowThenTokenOrder ==
    pc # "load" =>
        \A category \in Categories :
            LET toks == TokensOfRows(Processed, category)
                O == Origins(toks, category)
            IN  /\ Len(Records[category]) = Cardinality(O)
                /\ \A p \in O :
                      LET e == Records[category][Rank(O, p)]
                      IN  /\ e.date = Processed[p[1]].date
                          /\ e.time # None
                          /\ e = EventOf(category, Processed[p[1]].date, toks[p[1]][p[2]])

\* two rows, the later day first, each with accepted breast tokens: the list
\* starts with the first row's two events and ends with the second row's
C14_Witness ==
    /\ pc = "parsed"
    /\ Len(df) = 2 /\ df[1].date > df[2].date
    /\ Cardinality({ p \in Origins(TokensOfRows(df, "breast"), "breast") : p[1] = 1 }) >= 2
    /\ \E p \in Origins(TokensOfRows(df, "breast"), "breast") : p[1] = 2
    /\ breast_records[1].date = df[1].date
    /\ breast_records[2].date = df[1].date
    /\ breast_records[1].time # breast_records[2].time
    /\ breast_records[Len(breast_records)].date = df[2].date

---------------------------------------------------------------------------
(* Rows parsed in separate parts and merged, on DiarySpec *)

\* a way of dealing the rows to parts: the part number of every row
Labelings(n) == [1..n -> 1..n]

Concatenated(a, b) ==
    [breast |-> a.breast \o b.breast, pumped |-> a.pumped \o b.pumped,
     formula |-> a.formula \o b.formula, urine |-> a.urine \o b.urine,
     stool |-> a.stool \o b.stool, weight |-> a.weight \o b.weight]

\* every row parsed on its own, from empty lists
RECURSIVE RowLists(_)
RowLists(table) ==
    IF table = <<>> THEN <<>>
    ELSE <<process_row(NoRecords, table[1])>> \o RowLists(Tail(table))

\* the lists of the rows at the given indices put one after the other
RECURSIVE ConcatenatedAt(_, _)
ConcatenatedAt(rows, idx) ==
    IF idx = <<>> THEN NoRecords
    ELSE Concatenated(rows[idx[1]], ConcatenatedAt(rows, Tail(idx)))

\* the lists of parts 1..k of the dealing g put one after the other, a part's
\* lists being those of its rows in table order
RECURSIVE MergedParts(_, _, _)
MergedParts(rows, g, k) ==
    IF k = 0 THEN NoRecords
    ELSE Concatenated(MergedParts(rows, g, k - 1),
                      ConcatenatedAt(rows, ascending({ i \in DOMAIN g : g[i] = k })))

\* the count table and the totals a plotter derives from given lists
OutcomeOfLists(r, which) ==
    LET p == [breast |-> r.breast, pumped |-> r.pumped, formula |-> r.formula,
              urine |-> r.urine, stool |-> r.stool, count |-> build_count_records(r),
              weight |-> r.weight]
    IN  IF which = "matplotlib"
        THEN [count |-> p.count, raised |-> mpl_raises(p), dates |-> mpl_all_dates(p),
              feeding |-> IF mpl_raises(p) THEN <<>> ELSE mpl_feeding_totals(p),
              direct |-> IF mpl_raises(p) THEN <<>> ELSE mpl_direct_totals(p),
              pumped |-> <<>>, formula |-> <<>>, breast |-> <<>>]
        ELSE [count |-> p.count, raised |-> FALSE, dates |-> plotly_all_dates(p),
              feeding |-> <<>>, direct |-> <<>>,
              pumped |-> plotly_pumped_vals(p), formula |-> plotly_formula_vals(p),
              breast |-> plotly_breast_vals(p)]

Occurrences(q, e) == Cardinality({ k \in 1..Len(q) : q[k] = e })

\* the same events the same number of times, in whatever order
SameEvents(a, b) ==
    /\ Len(a) = Len(b)
    /\ \A k \in 1..Len(a) : Occurrences(a, a[k]) = Occurrences(b, a[k])

\* C15: the one-pass lists are the lists of the rows, each parsed on its own, put
\* one after the other in table order; and however the rows are dealt to parts,
\* putting the parts' lists one after the other gives the count table and the
\* daily totals of the one-pass run, and lists with the same events as the
\* one-pass lists, each as many times.
C15_PartsThenMerge ==
    Rendered =>
        LET rows == RowLists(df)
            merged == { MergedParts(rows, g, Len(df)) : g \in Labelings(Len(df)) }
        IN  /\ Records = ConcatenatedAt(rows, [k \in 1..Len(df) |-> k])
            /\ \A m \in merged :
                  /\ OutcomeOfLists(m, plotter) = Reached
                  /\ \A c \in Categories \cup {"weight"} : SameEvents(m[c], Records[c])

\* a finished run on two rows of the same day, both with pumped amounts, whose
\* merge with the second row's part first has the lists in another order
C15_Witness ==
    /\ pc = "done"
    /\ Len(df) = 2 /\ df[1].date = df[2].date
    /\ pumped_cell(df[1].date, df[1].pumped) # <<>>
    /\ pumped_cell(df[2].date, df[2].pumped) # <<>>
    /\ MergedParts(RowLists(df), <<2, 1>>, 2).pumped # pumped_records
    /\ amount_on(pumped_records, df[1].date)
          > amount_on(pumped_cell(df[1].date, df[1].pumped), df[1].date)

---------------------------------------------------------------------------
(* Diaper tokens, on TokenSpec *)

\* one or two digits, alone or followed by a colon and two digits
IsTimeShape(s) ==
    \/ Len(s) \in {1, 2} /\ AllDigits(s)
    \/ \E h \in {1, 2} :
          /\ Len(s) = h + 3
          /\ AllDigits(SubSeq(s, 1, h))
          /\ s[h + 1] = ":"
          /\ AllDigits(SubSeq(s, h + 2, h + 3))

\* the lengths of the token's beginnings that have the shape of a time
TimeShapedPrefixes(t) == { k \in 1..Len(t) : IsTimeShape(SubSeq(t, 1, k)) }

\* the time prefix of a token: the longest such beginning
TimePrefix(t) ==
    LET k == CHOOSE m \in TimeShapedPrefixes(t) : \A n \in TimeShapedPrefixes(t) : n <= m
    IN  SubSeq(t, 1, k)

Trailing(t) == SubSeq(t, Len(TimePrefix(t)) + 1, Len(t))

Tok_0900_note == <<"0","9",":","0","0","^">>

Tok_1030 == <<"1","0",":","3","0">>

\* C16: a urine or stool token gives an event exactly when it has a time prefix
\* and parse_time reads that prefix; the event's time is the prefix's, its note is
\* the text after the prefix, trimmed, or None when there is none; 09:00^ gives
\* 09:00 with note ^ and 10:30 gives 10:30 with note None.
C16_DiaperTimePrefixDecides ==
    tok_kind \in {"urine", "stool"} =>
        /\ IF TimeShapedPrefixes(tok) # {} /\ parse_time(TimePrefix(tok)) # None
           THEN tok_out = <<[date |-> SampleDay1,
                             time |-> parse_time(TimePrefix(tok)),
                             note |-> IF strip(Trailing(tok)) # <<>>
                                      THEN strip(Trailing(tok)) ELSE None]>>
           ELSE tok_out = <<>>
        /\ tok = Tok_0900_note =>
              tok_out = <<[date |-> SampleDay1, time |-> <<9, 0>>, note |-> <<"^">>]>>
        /\ tok = Tok_1030 =>
              tok_out = <<[date |-> SampleDay1, time |-> <<10, 30>>, note |-> None]>>

\* the stool parser has read 09:00^
C16_Witness ==
    /\ tok_kind = "stool"
    /\ tok = Tok_0900_note
    /\ Len(tok_out) = 1
    /\ tok_out[1].note = <<"^">>

---------------------------------------------------------------------------
(* The built-in sample, on Spec *)

\* the place of a date in a list of dates, 0 when it is not there
PlaceOf(dates, d) ==
    IF \E k \in 1..Len(dates) : dates[k] = d
    THEN CHOOSE k \in 1..Len(dates) : dates[k] = d
    ELSE 0

\* C17: a run on the sample table has three breast events, two on 2025-09-15 and
\* one on 2025-09-16, a count row for 2025-09-16 with stool = 2, and, from either
\* plotter, totals for 2025-09-15 of 100 ml pumped, 180 ml formula and 35 minutes
\* of breastfeeding.
C17_SampleRun ==
    df = SampleDf =>
        /\ pc # "error"
        /\ AfterParse =>
              /\ Len(breast_records) = 3
              /\ NumberOn(breast_records, SampleDay1) = 2
              /\ NumberOn(breast_records, SampleDay2) = 1
              /\ \E k \in 1..Len(count_records) :
                    count_records[k].date = SampleDay2 /\ count_records[k].stool = 2
              /\ \A k \in 1..Len(count_records) :
                    count_records[k].date = SampleDay2 => count_records[k].stool = 2
        /\ pc = "done" /\ plotter = "matplotlib" =>
              /\ \E k \in 1..Len(feeding_totals) : feeding_totals[k] = <<SampleDay1, 100, 180>>
              /\ \E k \in 1..Len(direct_totals) : direct_totals[k] = <<SampleDay1, 35>>
        /\ pc = "done" /\ plotter = "plotly" =>
              LET k == PlaceOf(all_dates, SampleDay1)
              IN  /\ k # 0
                  /\ pumped_vals[k] = 100
                  /\ formula_vals[k] = 180
                  /\ breast_vals[k] = 35

\* a finished matplotlib run on the sample table, its totals derived
C17_Witness ==
    /\ df = SampleDf
    /\ pc = "done"
    /\ plotter = "matplotlib"
    /\ Len(feeding_totals) = 2
    /\ Len(breast_records) = 3

---------------------------------------------------------------------------
(* The two rendering paths side by side, on Spec *)

\* C18: from the same parse result, plot_with_matplotlib derives totals whenever
\* plot_with_plotly does (which is always), for the same dates, with the same
\* pumped, formula and breast-minute sums for each date.
C18_PlottersAgree ==
    AfterParse =>
        /\ ~mpl_raises(Parsed)
        /\ mpl_all_dates(Parsed) = plotly_all_dates(Parsed)
        /\ \A k \in 1..Len(mpl_all_dates(Parsed)) :
              LET d == mpl_all_dates(Parsed)[k]
                  j == PlaceOf(plotly_all_dates(Parsed), d)
              IN  /\ j # 0
                  /\ mpl_feeding_totals(Parsed)[k]
                        = <<d, plotly_pumped_vals(Parsed)[j], plotly_formula_vals(Parsed)[j]>>
                  /\ mpl_direct_totals(Parsed)[k] = <<d, plotly_breast_vals(Parsed)[j]>>

=============================================================================
